---- MODULE Spec2Model ----
(***************************************************************************)
(* Model of ECommerceDemo.cpp: products with a stock counter, carts that   *)
(* map products to requested quantities, a customer balance, Cart::add and *)
(* checkout.  Currency amounts are whole numbers (as every price and the   *)
(* balance in main are); weights are IEEE-754 doubles, carried as exact    *)
(* binary fixed-point numbers and rounded as double arithmetic rounds.     *)
(***************************************************************************)
EXTENDS Integers, Sequences, FiniteSets, TLC

(* ------------------------------ bounds -------------------------------- *)
MaxQty == 3          \* largest quantity passed to Cart::add
MaxUnits == 2        \* cap on the number of units the carts hold together
MaxReduce == 1       \* largest amount of a direct reduceQuantity call; such
                     \* calls are followed down to a stock of -MaxReduce
CheeseStock == 2     \* initial stock of Cheese (main loads 5)
ScratchCardStock == 1 \* initial stock of ScratchCard (main loads 20)
InitBalance == 224   \* the customer's initial balance (main opens with 1000):
                     \* the total of two units of Cheese, 200 + 24

(* ------------------------------ catalog ------------------------------- *)
Products == {"Cheese", "ScratchCard"}
Carts == {"cart", "cart2"}
NoName == "none"

price == [p \in Products |-> IF p = "Cheese" THEN 100 ELSE 50]
initialQuantity == [p \in Products |-> IF p = "Cheese" THEN CheeseStock ELSE ScratchCardStock]
Expirable == {"Cheese"}
Shippable == {"Cheese"}
expiryDate == 0      \* the instant of Cheese's expiry date on the model's clock

VARIABLES quantity, balance, items, now, addr, last
\* the program's state: Product::quantity of each product, Customer::balance,
\* Cart::items of each cart, the clock, the order of the products' addresses,
\* and what the last call reported

VARIABLES inserted, sold, paid
\* a ledger kept beside the program: the order in which each cart's products
\* were first added, the units of each product in successfully checked-out
\* carts, and the sum of the totals of the successful checkouts
ledger == <<inserted, sold, paid>>

VARIABLES pc, locals, events, raced
\* checkout taken statement by statement: where each cart's checkout stands,
\* its local variables, what the checkout under way has printed and changed
\* so far, and whether two checkouts have ever been under way together
steps == <<pc, locals, events, raced>>

vars == <<quantity, balance, items, now, addr, last, inserted, sold, paid,
          pc, locals, events, raced>>

(* --------------------- double arithmetic on weights ------------------- *)
\* A non-negative double below 2^17 is carried as its exact value times 2^54,
\* written in four limbs <<l1, l2, l3, hi>> = l1 + l2*2^18 + l3*2^36 + hi*2^54:
\* three limbs of 18 fraction bits each and the whole part.  Every double
\* from 2^-1 upwards is such a multiple of 2^-54, and so is the weight 0.4.
LimbBits == 18
Mantissa == 53

RECURSIVE Pow2(_)
Pow2(n) == IF n = 0 THEN 1 ELSE 2 * Pow2(n - 1)

RECURSIVE BitLen(_)
BitLen(n) == IF n = 0 THEN 0 ELSE 1 + BitLen(n \div 2)

Limb == Pow2(LimbBits)

\* carries the overflow of each fraction limb into the next one
Carry(x) ==
    LET c1 == x[1] \div Limb
        c2 == (x[2] + c1) \div Limb
        c3 == (x[3] + c2) \div Limb
    IN  <<x[1] % Limb, (x[2] + c1) % Limb, (x[3] + c2) % Limb, x[4] + c3>>

\* the number of significant bits of x
Width(x) ==
    IF x[4] > 0 THEN 3 * LimbBits + BitLen(x[4])
    ELSE IF x[3] > 0 THEN 2 * LimbBits + BitLen(x[3])
    ELSE IF x[2] > 0 THEN LimbBits + BitLen(x[2])
    ELSE BitLen(x[1])

\* round to nearest, ties to even, to a significand of 53 bits; the bits
\* dropped lie in the lowest limb
RoundToDouble(x) ==
    LET d == Width(x) - Mantissa
    IN  IF d <= 0 THEN x
        ELSE LET unit == Pow2(d)
                 low == x[1] % unit
                 keptOdd == IF d < LimbBits THEN (x[1] \div unit) % 2 = 1
                            ELSE x[2] % 2 = 1
                 roundUp == 2 * low > unit \/ (2 * low = unit /\ keptOdd)
             IN  Carry(<<x[1] - low + (IF roundUp THEN unit ELSE 0), x[2], x[3], x[4]>>)

DoubleZero == <<0, 0, 0, 0>>

DoubleAdd(a, b) == RoundToDouble(Carry(<<a[1] + b[1], a[2] + b[2], a[3] + b[3], a[4] + b[4]>>))

DoubleTimes10(x) == RoundToDouble(Carry(<<10 * x[1], 10 * x[2], 10 * x[3], 10 * x[4]>>))

\* std::ceil, as an integer
Ceil(x) == IF x[1] + x[2] + x[3] > 0 THEN x[4] + 1 ELSE x[4]

\* the double nearest to 0.4 is 0x1.999999999999ap-2 = 0x1999999999999A * 2^-54
CheeseWeight == <<104858, 157286, 104857, 0>>
getWeight(p) == CheeseWeight

(* ------------------------------ Product ------------------------------- *)
\* ExpirableProduct::isExpired: expiry instant < now; Product::isExpired: false
isExpired(p) == p \in Expirable /\ expiryDate < now

isShippable(p) == p \in Shippable

\* mutant: one unit is taken whatever the amount
reduceQuantityByOne(p, amount) == quantity[p] - 1

reduceQuantity(p, amount) == quantity[p] - amount

(* ------------------------------ Customer ------------------------------ *)
\* mutant: the amount is taken twice
deductBalanceTwice(amount) == balance - 2 * amount

deductBalance(amount) == balance - amount

(* -------------------------------- Cart -------------------------------- *)
\* mutant: a quantity of zero is let through
QuantityNegative(q) == q < 0

QuantityNotPositive(q) == q <= 0

\* mutant: the stock check lets one unit too many through
AddNotEnoughStockOffByOne(p, q) == q > quantity[p] + 1

AddNotEnoughStock(p, q) == q > quantity[p]

\* items[product] += quantity, creating the entry at 0 when absent
Accumulate(its, p, q) ==
    [x \in (DOMAIN its) \cup {p} |->
        IF x = p THEN (IF p \in DOMAIN its THEN its[p] ELSE 0) + q ELSE its[x]]

isEmpty(c) == DOMAIN items[c] = {}

EmptyItems == [x \in {} |-> 0]

\* mutant: clear leaves the entries in place
clearNothing(its) == its

\* Cart::clear
clear(its) == EmptyItems

RECURSIVE SumOver(_, _)
SumOver(f, S) == IF S = {} THEN 0
                 ELSE LET x == CHOOSE y \in S : TRUE
                      IN  f[x] + SumOver(f, S \ {x})

Units(its) == SumOver(its, DOMAIN its)

\* the units in all carts once cart c holds its
UnitsWith(c, its) ==
    SumOver([x \in Carts |-> IF x = c THEN Units(its) ELSE Units(items[x])], Carts)

\* std::map<Product*, int> iterates in increasing order of the key pointers
RECURSIVE InAddrOrder(_)
InAddrOrder(S) ==
    IF S = {} THEN <<>>
    ELSE LET first == CHOOSE p \in S : \A r \in S : addr[p] <= addr[r]
         IN  <<first>> \o InAddrOrder(S \ {first})

getItems(c) == InAddrOrder(DOMAIN items[c])

\* what the last call of Cart::add or checkout reported: the exception or the
\* error line, or the receipt and the shipped units of a successful checkout
Blank == [op |-> "none", kind |-> "OK", name |-> NoName, lines |-> <<>>, units |-> <<>>,
          subtotal |-> 0, shipping |-> 0, total |-> 0]

\* mutant: the "expired" message leaves the product's name out
AddErrorNameless(p, q) ==
    IF QuantityNotPositive(q) THEN [kind |-> "InvalidQuantity", name |-> NoName]
    ELSE IF isExpired(p) THEN [kind |-> "ExpiredProduct", name |-> NoName]
    ELSE IF AddNotEnoughStock(p, q) THEN [kind |-> "InsufficientStock", name |-> p]
    ELSE [kind |-> "OK", name |-> NoName]

\* the exception Cart::add throws, as (kind, product name in the message)
AddError(p, q) ==
    IF QuantityNotPositive(q) THEN [kind |-> "InvalidQuantity", name |-> NoName]
    ELSE IF isExpired(p) THEN [kind |-> "ExpiredProduct", name |-> p]
    ELSE IF AddNotEnoughStock(p, q) THEN [kind |-> "InsufficientStock", name |-> p]
    ELSE [kind |-> "OK", name |-> NoName]

\* mutant: the entry is stored before the stock check
addStoresFirst(its, p, q) ==
    IF QuantityNotPositive(q) THEN [items |-> its, kind |-> "InvalidQuantity", name |-> NoName]
    ELSE IF isExpired(p) THEN [items |-> its, kind |-> "ExpiredProduct", name |-> p]
    ELSE [items |-> Accumulate(its, p, q),
          kind |-> IF AddNotEnoughStock(p, q) THEN "InsufficientStock" ELSE "OK",
          name |-> IF AddNotEnoughStock(p, q) THEN p ELSE NoName]

\* Cart::add on a cart holding its: the entries afterwards and what was thrown
add(its, p, q) ==
    LET err == AddError(p, q)
    IN  [items |-> IF err.kind = "OK" THEN Accumulate(its, p, q) ELSE its,
         kind |-> err.kind, name |-> err.name]

\* mutant: a successful add takes the units out of the stock
AddReservesStock(c, p, q) ==
    LET r == add(items[c], p, q)
    IN  /\ last' = [Blank EXCEPT !.op = "add", !.kind = r.kind, !.name = r.name]
        /\ items' = [items EXCEPT ![c] = r.items]
        /\ r.kind = "OK" => UnitsWith(c, r.items) <= MaxUnits
        /\ quantity' = IF r.kind = "OK"
                       THEN [quantity EXCEPT ![p] = quantity[p] - q] ELSE quantity
        /\ UNCHANGED <<balance, now, addr>>

Add(c, p, q) ==
    LET r == add(items[c], p, q)
    IN  /\ last' = [Blank EXCEPT !.op = "add", !.kind = r.kind, !.name = r.name]
        /\ items' = [items EXCEPT ![c] = r.items]
        /\ r.kind = "OK" => UnitsWith(c, r.items) <= MaxUnits
        /\ UNCHANGED <<quantity, balance, now, addr>>

(* ------------------------------ checkout ------------------------------ *)
Repeat(p, n) == [i \in 1..n |-> p]

\* mutant: checkout trusts the check Cart::add made
CheckoutTrustsAdd(p, qty) == FALSE

\* mutant: the stock check lets a line exceed the stock by one
CheckoutStockOffByOne(p, qty) == qty > quantity[p] + 1

CheckoutNotEnoughStock(p, qty) == qty > quantity[p]

\* the loop of lines 135-153 over the entries that are left, with the
\* subtotal and the shippable units collected so far
\* mutant: two passes, every entry's expiry is checked before any stock
RECURSIVE ValidateExpiryFirst(_, _, _, _)
ValidateExpiryFirst(c, entries, subtotal, shippables) ==
    LET expired == {i \in 1..Len(entries) : isExpired(entries[i])}
    IN  IF expired # {}
        THEN [kind |-> "ExpiredProduct",
              name |-> entries[CHOOSE i \in expired : \A j \in expired : i <= j],
              subtotal |-> subtotal, shippables |-> shippables]
        ELSE IF entries = <<>>
        THEN [kind |-> "OK", name |-> NoName, subtotal |-> subtotal,
              shippables |-> shippables]
        ELSE LET product == Head(entries)
                 qty == items[c][product]
             IN  IF CheckoutNotEnoughStock(product, qty)
                 THEN [kind |-> "InsufficientStock", name |-> product,
                       subtotal |-> subtotal, shippables |-> shippables]
                 ELSE ValidateExpiryFirst(c, Tail(entries),
                                          subtotal + price[product] * qty,
                                          IF isShippable(product)
                                          THEN shippables \o Repeat(product, qty)
                                          ELSE shippables)

RECURSIVE ValidateLoop(_, _, _, _)
ValidateLoop(c, entries, subtotal, shippables) ==
    IF entries = <<>>
    THEN [kind |-> "OK", name |-> NoName, subtotal |-> subtotal, shippables |-> shippables]
    ELSE LET product == Head(entries)
             qty == items[c][product]
         IN  IF isExpired(product)
             THEN [kind |-> "ExpiredProduct", name |-> product,
                   subtotal |-> subtotal, shippables |-> shippables]
             ELSE IF CheckoutNotEnoughStock(product, qty)
             THEN [kind |-> "InsufficientStock", name |-> product,
                   subtotal |-> subtotal, shippables |-> shippables]
             ELSE ValidateLoop(c, Tail(entries), subtotal + price[product] * qty,
                               IF isShippable(product)
                               THEN shippables \o Repeat(product, qty)
                               ELSE shippables)

RECURSIVE TotalWeight(_, _)
TotalWeight(shippables, acc) ==
    IF shippables = <<>> THEN acc
    ELSE TotalWeight(Tail(shippables), DoubleAdd(acc, getWeight(Head(shippables))))

\* shipping = std::ceil(totalWeight * 10) * 3
ShippingFee(shippables) == Ceil(DoubleTimes10(TotalWeight(shippables, DoubleZero))) * 3

\* mutant: the balance is checked for being in debt, not against the total
InsufficientBalanceDebtOnly(total) == balance < 0

\* mutant: a balance equal to the total is refused as well
InsufficientBalanceOrEqual(total) == balance <= total

InsufficientBalance(total) == balance < total

ReceiptLines(c) ==
    LET entries == getItems(c)
    IN  [i \in 1..Len(entries) |->
            <<entries[i], items[c][entries[i]], price[entries[i]] * items[c][entries[i]]>>]

\* checkout up to its last return statement: the failure it reports, or the
\* amounts it computed and the receipt it prints
CheckoutOutcome(c) ==
    IF isEmpty(c) THEN [Blank EXCEPT !.kind = "EmptyCart"]
    ELSE LET v == ValidateLoop(c, getItems(c), 0, <<>>)
         IN  IF v.kind # "OK" THEN [Blank EXCEPT !.kind = v.kind, !.name = v.name]
             ELSE LET shipping == ShippingFee(v.shippables)
                      total == v.subtotal + shipping
                  IN  [Blank EXCEPT !.kind = IF InsufficientBalance(total)
                                              THEN "InsufficientBalance" ELSE "Success",
                                    !.lines = ReceiptLines(c),
                                    !.units = v.shippables, !.subtotal = v.subtotal,
                                    !.shipping = shipping, !.total = total]

\* mutant: the return after "Insufficient balance" is missing
ReturnsUnlessBalance(kind) == kind \notin {"Success", "InsufficientBalance"}

\* checkout returns right after printing an error
Returns(kind) == kind # "Success"

Checkout(c) ==
    LET out == CheckoutOutcome(c)
    IN  /\ IF Returns(out.kind)
           THEN UNCHANGED <<balance, quantity, items>>
           ELSE /\ balance' = deductBalance(out.total)
                /\ quantity' = [p \in Products |->
                                   IF p \in DOMAIN items[c]
                                   THEN reduceQuantity(p, items[c][p])
                                   ELSE quantity[p]]
                /\ items' = [items EXCEPT ![c] = clear(items[c])]
        /\ last' = IF out.kind = "Success"
                   THEN [out EXCEPT !.op = "checkout"]
                   ELSE [Blank EXCEPT !.op = "checkout", !.kind = out.kind, !.name = out.name]
        /\ UNCHANGED <<now, addr>>

(* ------------------------------- main --------------------------------- *)
\* a direct call of Product::reduceQuantity, as main makes on cheese
Reduce(p, amount) ==
    /\ quantity[p] - amount >= -MaxReduce
    /\ quantity' = [quantity EXCEPT ![p] = reduceQuantity(p, amount)]
    /\ UNCHANGED <<balance, items, now, addr, last>>

\* time passes between two calls; the clock is followed until the expiry
\* date has passed, later instants make no difference to isExpired
Tick ==
    /\ now <= expiryDate
    /\ now' = now + 1
    /\ UNCHANGED <<quantity, balance, items, addr, last>>

\* the addresses the allocator may give the products: any order
Addresses == {a \in [Products -> 1..Cardinality(Products)] :
                 \A p, r \in Products : p # r => a[p] # a[r]}

LedgerInit ==
    /\ inserted = [c \in Carts |-> <<>>]
    /\ sold = [p \in Products |-> 0]
    /\ paid = 0

StepsInit ==
    /\ pc = [c \in Carts |-> "idle"]
    /\ locals = [c \in Carts |-> Blank]
    /\ events = <<>>
    /\ raced = FALSE

Init ==
    /\ quantity = initialQuantity
    /\ balance = InitBalance
    /\ items = [c \in Carts |-> EmptyItems]
    /\ now = 0
    /\ addr \in Addresses
    /\ last = Blank
    /\ LedgerInit
    /\ StepsInit

Next ==
    \/ \E c \in Carts, p \in Products, q \in -1..MaxQty :
          Add(c, p, q) /\ UNCHANGED <<ledger, steps>>
    \/ \E c \in Carts : Checkout(c) /\ UNCHANGED <<ledger, steps>>
    \/ \E p \in Products, amount \in 1..MaxReduce :
          Reduce(p, amount) /\ UNCHANGED <<ledger, steps>>
    \/ Tick /\ UNCHANGED <<ledger, steps>>

Spec == Init /\ [][Next]_vars

(* ----------------- calls of add and checkout, with a ledger ------------ *)
\* Cart::add, noting the product when items[product] is created by line 95
AddCall(c, p, q) ==
    /\ Add(c, p, q)
    /\ UNCHANGED steps
    /\ inserted' = [inserted EXCEPT ![c] =
                       IF add(items[c], p, q).kind = "OK" /\ p \notin DOMAIN items[c]
                       THEN Append(@, p) ELSE @]
    /\ UNCHANGED <<sold, paid>>

\* checkout, entering a successful one into the ledger
CheckoutCall(c) ==
    LET out == CheckoutOutcome(c)
    IN  /\ Checkout(c)
        /\ UNCHANGED steps
        /\ IF Returns(out.kind)
           THEN UNCHANGED ledger
           ELSE /\ inserted' = [inserted EXCEPT ![c] = <<>>]
                /\ sold' = [p \in Products |->
                               IF p \in DOMAIN items[c] THEN sold[p] + items[c][p]
                                                        ELSE sold[p]]
                /\ paid' = paid + out.total

\* the clock, with the ledger left alone
TickCall == Tick /\ UNCHANGED <<ledger, steps>>

\* any sequence of Cart::add and checkout calls on the carts, at any time
NextCalls ==
    \/ \E c \in Carts, p \in Products, q \in -1..MaxQty : AddCall(c, p, q)
    \/ \E c \in Carts : CheckoutCall(c)
    \/ TickCall

SpecCalls == Init /\ [][NextCalls]_vars

(* -------------------- checkout, statement by statement ----------------- *)
\* no checkout is under way
Idle == \A c \in Carts : pc[c] = "idle"

\* lines 127-161: the checks and the sums; a failure prints its one error and
\* returns, otherwise the amounts are in the local variables
Validate(c) ==
    LET out == CheckoutOutcome(c)
    IN  /\ pc[c] = "idle"
        /\ IF Returns(out.kind)
           THEN /\ events' = <<"error">>
                /\ last' = [Blank EXCEPT !.op = "checkout", !.kind = out.kind,
                                         !.name = out.name]
                /\ UNCHANGED <<pc, locals, raced>>
           ELSE /\ events' = <<>>
                /\ pc' = [pc EXCEPT ![c] = "report"]
                /\ locals' = [locals EXCEPT ![c] = out]
                /\ raced' = (raced \/ \E c2 \in Carts \ {c} : pc[c2] # "idle")
                /\ UNCHANGED last
        /\ UNCHANGED <<quantity, balance, items, now, addr, ledger>>

\* lines 162-173: ShippingService::ship when there is a shippable unit, then
\* the receipt down to the amount
Report(c) ==
    /\ pc[c] = "report"
    /\ events' = events \o (IF locals[c].units # <<>> THEN <<"shipment">> ELSE <<>>)
                        \o <<"receipt">>
    /\ last' = [locals[c] EXCEPT !.op = "checkout"]
    /\ pc' = [pc EXCEPT ![c] = "deduct"]
    /\ UNCHANGED <<quantity, balance, items, now, addr, locals, raced, ledger>>

\* lines 174-176: the balance is charged, then printed
Deduct(c) ==
    /\ pc[c] = "deduct"
    /\ balance' = deductBalance(locals[c].total)
    /\ events' = Append(events, "deduct")
    /\ pc' = [pc EXCEPT ![c] = "commit"]
    /\ UNCHANGED <<quantity, items, now, addr, last, locals, raced, ledger>>

\* lines 177-180: the stock of every line is reduced and the cart cleared
Commit(c) ==
    /\ pc[c] = "commit"
    /\ quantity' = [p \in Products |-> IF p \in DOMAIN items[c]
                                        THEN reduceQuantity(p, items[c][p])
                                        ELSE quantity[p]]
    /\ items' = [items EXCEPT ![c] = clear(items[c])]
    /\ events' = Append(events, "commit")
    /\ pc' = [pc EXCEPT ![c] = "idle"]
    /\ locals' = [locals EXCEPT ![c] = Blank]
    /\ UNCHANGED <<balance, now, addr, last, raced, ledger>>

\* main runs one call at a time: a checkout runs to its end before the next call
NextSteps ==
    \/ \E c \in Carts, p \in Products, q \in -1..MaxQty :
          Idle /\ Add(c, p, q) /\ UNCHANGED <<ledger, steps>>
    \/ \E c \in Carts : Idle /\ Validate(c)
    \/ \E c \in Carts : Report(c)
    \/ \E c \in Carts : Deduct(c)
    \/ \E c \in Carts : Commit(c)
    \/ Idle /\ Tick /\ UNCHANGED <<ledger, steps>>

SpecSteps == Init /\ [][NextSteps]_vars

\* checkouts of different carts run side by side, nothing holding one back
\* between its checks and its commit
NextInterleaved ==
    \/ \E c \in Carts, p \in Products, q \in -1..MaxQty :
          pc[c] = "idle" /\ Add(c, p, q) /\ UNCHANGED <<ledger, steps>>
    \/ \E c \in Carts : Validate(c)
    \/ \E c \in Carts : Report(c)
    \/ \E c \in Carts : Deduct(c)
    \/ \E c \in Carts : Commit(c)
    \/ Tick /\ UNCHANGED <<ledger, steps>>

SpecInterleaved == Init /\ [][NextInterleaved]_vars

(* ------------------- checkout of one cart of any content --------------- *)
\* main's figures: five Cheese and twenty ScratchCards in stock, balance 1000
MainCheeseStock == 5
MainScratchCardStock == 20
MainBalance == 1000

\* the largest number of ScratchCards put into the cart
MaxShipQty == 5

\* a cart holding q units of Cheese and n ScratchCards, an entry only for a
\* positive quantity
Filled(q, n) ==
    [p \in ({"Cheese"} \cap {r \in Products : q > 0})
            \cup ({"ScratchCard"} \cap {r \in Products : n > 0})
        |-> IF p = "Cheese" THEN q ELSE n]

\* before the expiry date, cart holds any quantities within the stock
ShipInit ==
    /\ quantity = [p \in Products |-> IF p = "Cheese" THEN MainCheeseStock
                                                       ELSE MainScratchCardStock]
    /\ balance = MainBalance
    /\ \E q \in 0..MainCheeseStock, n \in 0..MaxShipQty :
          items = [c \in Carts |-> IF c = "cart" THEN Filled(q, n) ELSE EmptyItems]
    /\ now = 0
    /\ addr \in Addresses
    /\ last = Blank
    /\ LedgerInit
    /\ StepsInit

ShipNext == Checkout("cart") /\ UNCHANGED <<ledger, steps>>

ShipSpec == ShipInit /\ [][ShipNext]_vars

(* ------------------------------- claims ------------------------------- *)
Quantities == -1..MaxQty
Failures == {"EmptyCart", "ExpiredProduct", "InsufficientStock", "InsufficientBalance"}

\* C1: a checkout that ends in a failure leaves every product's stock, the
\* customer's balance and every cart's entries as they were before the call.
C1_FailedCheckoutMutatesNothing ==
    [][\A c \in Carts :
          (last'.op = "checkout" /\ last'.kind # "Success" /\ Checkout(c))
              => (quantity' = quantity /\ balance' = balance /\ items' = items)]_vars

\* a checkout refused for the balance, with its cart still filled and the
\* balance already lowered by an earlier purchase
C1_Witness ==
    /\ last.op = "checkout" /\ last.kind = "InsufficientBalance"
    /\ \E c \in Carts : DOMAIN items[c] # {}
    /\ balance < InitBalance

\* C2: in every reachable state every product's quantity is >= 0.
C2_QuantityNeverNegative == \A p \in Products : quantity[p] >= 0

\* C3: the customer's balance is never negative.
C3_BalanceNeverNegative == balance >= 0

\* checkout has refused a cart whose total exceeds what is left of the balance
C3_Witness ==
    /\ last.op = "checkout" /\ last.kind = "InsufficientBalance"
    /\ \E c \in Carts : CheckoutOutcome(c).kind = "InsufficientBalance"
                        /\ CheckoutOutcome(c).total > balance
    /\ balance >= 0

\* the subtotal of a cart, summed over its entries as a set
C4_Subtotal(c) ==
    SumOver([p \in DOMAIN items[c] |-> price[p] * items[c][p]], DOMAIN items[c])

C4_Valid(c) ==
    /\ DOMAIN items[c] # {}
    /\ \A p \in DOMAIN items[c] : ~isExpired(p) /\ items[c][p] <= quantity[p]

\* C4: when the cart is non-empty, no line is expired, every line fits the
\* stock and the balance covers total = subtotal + shipping fee, checkout
\* succeeds, takes exactly total from the balance, takes exactly the cart's
\* quantity from the stock of each product in the cart, leaves the other
\* products' stock alone and empties the cart.
C4_SuccessCommitsExactly ==
    [][\A c \in Carts :
          (last'.op = "checkout" /\ C4_Valid(c)
             /\ balance >= C4_Subtotal(c) + CheckoutOutcome(c).shipping
             /\ Checkout(c))
              => /\ last'.kind = "Success"
                 /\ last'.subtotal = C4_Subtotal(c)
                 /\ last'.total = C4_Subtotal(c) + last'.shipping
                 /\ balance' = balance - last'.total
                 /\ \A p \in Products :
                       quantity'[p] = IF p \in DOMAIN items[c]
                                      THEN quantity[p] - items[c][p] ELSE quantity[p]
                 /\ DOMAIN items'[c] = {}]_vars

\* a successful checkout of two units of the shippable product
C4_Witness ==
    /\ last.op = "checkout" /\ last.kind = "Success"
    /\ \E i \in 1..Len(last.lines) : last.lines[i][2] = 2 /\ last.lines[i][1] \in Shippable
    /\ last.shipping > 0
    /\ balance = InitBalance - last.total

\* C5: right after every successful Cart::add, every entry of the cart holds
\* at most the stock of its product.
C5_EntriesWithinStockAfterAdd ==
    [][\A c \in Carts, p \in Products, q \in Quantities :
          (last'.op = "add" /\ last'.kind = "OK" /\ Add(c, p, q))
              => \A x \in DOMAIN items'[c] : items'[c][x] <= quantity'[x]]_vars

\* C6 as stated: an add of more than the stock always fails with
\* InsufficientStock and leaves the cart unchanged.
C6_OverStockAddIsInsufficientStock ==
    \A c \in Carts, p \in Products, q \in Quantities :
        q > quantity[p]
            => (add(items[c], p, q).kind = "InsufficientStock"
                /\ add(items[c], p, q).items = items[c])

\* the error Cart::add's checks yield in their order, for an add that fails
C6_Expected(p, q) ==
    IF q <= 0 THEN "InvalidQuantity"
    ELSE IF p \in Expirable /\ now > expiryDate THEN "ExpiredProduct"
    ELSE "InsufficientStock"

\* C6 amended: an add of more than the stock always fails and leaves the cart
\* unchanged; the error is InsufficientStock unless an earlier check fires:
\* InvalidQuantity when the quantity is <= 0, ExpiredProduct when the
\* quantity is > 0 and the product is expired.
C6_OverStockAddFails ==
    \A c \in Carts, p \in Products, q \in Quantities :
        q > quantity[p]
            => (add(items[c], p, q).kind = C6_Expected(p, q)
                /\ add(items[c], p, q).items = items[c])

\* an add of more than the stock was refused while the cart it was made on
\* holds an entry
C6_Witness ==
    /\ last.op = "add" /\ last.kind = "InsufficientStock"
    /\ \E c \in Carts : DOMAIN items[c] # {}

\* C7: a failed Cart::add, whichever check it fails, leaves the cart's
\* entries exactly as they were; and after a failed add, an add that passes
\* the three checks still puts its quantity into the cart.
C7_FailedAddAbortsOnlyItself ==
    \A c \in Carts, p \in Products, q \in Quantities :
        LET r == add(items[c], p, q)
            passes == q > 0 /\ ~(p \in Expirable /\ now > expiryDate) /\ q <= quantity[p]
        IN  /\ ~passes => (r.kind # "OK" /\ r.items = items[c])
            /\ (last.op = "add" /\ last.kind # "OK" /\ passes)
                  => /\ r.kind = "OK"
                     /\ DOMAIN r.items = DOMAIN items[c] \cup {p}
                     /\ r.items[p] = (IF p \in DOMAIN items[c] THEN items[c][p] ELSE 0) + q
                     /\ \A x \in DOMAIN items[c] \ {p} : r.items[x] = items[c][x]

\* an add of an expired product has failed and the carts still hold what
\* was added to them before, of that product and of another one
C7_Witness ==
    /\ last.op = "add" /\ last.kind = "ExpiredProduct"
    /\ \E c \in Carts : last.name \in DOMAIN items[c]
    /\ \E c \in Carts : DOMAIN items[c] \ {last.name} # {}

\* C8 as stated: every failure of Cart::add is one of the three errors and
\* carries a product's name.
C8_AddFailureCarriesName ==
    (last.op = "add" /\ last.kind # "OK")
        => /\ last.kind \in {"InvalidQuantity", "ExpiredProduct", "InsufficientStock"}
           /\ last.name \in Products

\* C8 amended: every failure of Cart::add is one of the three errors;
\* ExpiredProduct and InsufficientStock carry the name of the product of the
\* call, InvalidQuantity carries no product name.
C8_AddFailureKinds ==
    /\ \A c \in Carts, p \in Products, q \in Quantities :
          LET r == add(items[c], p, q)
          IN  r.kind # "OK"
                => /\ r.kind \in {"InvalidQuantity", "ExpiredProduct", "InsufficientStock"}
                   /\ r.kind = "InvalidQuantity" => (q <= 0 /\ r.name = NoName)
                   /\ r.kind = "ExpiredProduct" => (q > 0 /\ r.name = p)
                   /\ r.kind = "InsufficientStock" => (q > quantity[p] /\ r.name = p)
    /\ (last.op = "add" /\ last.kind # "OK")
          => /\ last.kind \in {"InvalidQuantity", "ExpiredProduct", "InsufficientStock"}
             /\ (last.kind = "InvalidQuantity") = (last.name = NoName)

\* an add has been refused for its quantity, with no product named
C8_Witness == last.op = "add" /\ last.kind = "InvalidQuantity" /\ last.name = NoName

\* the entries of cart c before p in the order checkout visits them
C9_Before(c, p) == {r \in DOMAIN items[c] : addr[r] < addr[p]}

C9_OverStock(c, p) == p \in DOMAIN items[c] /\ items[c][p] > quantity[p]

\* C9 as stated: when a cart's quantity for a product exceeds the product's
\* stock at checkout, checkout fails with InsufficientStock for that product
\* and charges nothing.
C9_StaleEntryIsInsufficientStock ==
    [][\A c \in Carts, p \in Products :
          (last'.op = "checkout" /\ C9_OverStock(c, p) /\ Checkout(c))
              => (last'.kind = "InsufficientStock" /\ last'.name = p
                  /\ balance' = balance)]_vars

\* C9 amended: when a cart's quantity for a product exceeds the product's
\* live stock at checkout, checkout fails and changes no balance, stock or
\* cart; it reports the first entry in the cart's iteration order that is
\* expired or over stock, so it reports InsufficientStock for that product
\* when the product is not expired and no earlier entry fails.
C9_StaleEntryFailsCheckout ==
    [][\A c \in Carts, p \in Products :
          (last'.op = "checkout" /\ C9_OverStock(c, p) /\ Checkout(c))
              => /\ last'.kind \in {"ExpiredProduct", "InsufficientStock"}
                 /\ balance' = balance /\ quantity' = quantity /\ items' = items
                 /\ (/\ ~(p \in Expirable /\ now > expiryDate)
                     /\ \A r \in C9_Before(c, p) :
                           ~(r \in Expirable /\ now > expiryDate) /\ items[c][r] <= quantity[r])
                       => (last'.kind = "InsufficientStock" /\ last'.name = p)]_vars

\* checkout has refused, for the stock, an entry that fitted the stock the
\* product started with and no longer fits what is left of it
C9_Witness ==
    /\ last.op = "checkout" /\ last.kind = "InsufficientStock"
    /\ \E c \in Carts :
          /\ last.name \in DOMAIN items[c]
          /\ items[c][last.name] <= initialQuantity[last.name]
          /\ items[c][last.name] > quantity[last.name]
    /\ balance = InitBalance

C10_Oversubscribed(c1, c2, p) ==
    /\ c1 # c2
    /\ p \in DOMAIN items[c1] /\ p \in DOMAIN items[c2]
    /\ items[c1][p] <= quantity[p] /\ items[c2][p] <= quantity[p]
    /\ items[c1][p] + items[c2][p] > quantity[p]

\* C10: a call of Cart::add, successful or failed, changes no product's
\* stock and not the balance; and when two carts hold quantities of one
\* product that each fit its stock but not together, a successful checkout
\* of one leaves the other's entry over the stock, so that the other's
\* checkout fails: with InsufficientStock for that product when it is the
\* cart's only entry and has not expired.
C10_AddReservesNothing ==
    [][/\ (last'.op = "add" /\ (last' # last \/ items' # items))
            => (quantity' = quantity /\ balance' = balance)
       /\ \A c1, c2 \in Carts, p \in Products :
            (last'.op = "checkout" /\ last'.kind = "Success"
               /\ C10_Oversubscribed(c1, c2, p) /\ Checkout(c1))
                => /\ items'[c2] = items[c2]
                   /\ items'[c2][p] > quantity'[p]
                   /\ CheckoutOutcome(c2)'.kind \in Failures
                   /\ (DOMAIN items[c2] = {p} /\ ~(p \in Expirable /\ now > expiryDate))
                         => (CheckoutOutcome(c2)'.kind = "InsufficientStock"
                             /\ CheckoutOutcome(c2)'.name = p)]_vars

\* the first of two carts that over-subscribed a product has checked out and
\* the second one's entry, which fitted the stock before, now fails
C10_Witness ==
    /\ last.op = "checkout" /\ last.kind = "Success"
    /\ \E c2 \in Carts, i \in 1..Len(last.lines) :
          LET p == last.lines[i][1]
          IN  /\ p \in DOMAIN items[c2]
              /\ items[c2][p] > quantity[p]
              /\ items[c2][p] <= quantity[p] + last.lines[i][2]
              /\ quantity[p] >= 0
              /\ CheckoutOutcome(c2).kind = "InsufficientStock"
              /\ CheckoutOutcome(c2).name = p

\* the entries of cart c that checkout rejects: expired, or more than the stock
C11_Failing(c, p) == isExpired(p) \/ items[c][p] > quantity[p]

\* the first product, in the order of first insertion, that checkout rejects
C11_FirstFailing(c) ==
    LET bad == {i \in 1..Len(inserted[c]) : C11_Failing(c, inserted[c][i])}
    IN  inserted[c][CHOOSE i \in bad : \A j \in bad : i <= j]

\* C11: checkout visits the lines in the order in which the products were
\* first added to the cart: the receipt of a successful checkout lists the
\* products in that order, and a checkout that fails on a line reports the
\* first line, in that order, that is expired or over stock.
C11_InsertionOrder ==
    [][\A c \in Carts :
          (last'.op = "checkout" /\ CheckoutCall(c))
              => /\ last'.kind = "Success"
                     => [i \in 1..Len(last'.lines) |-> last'.lines[i][1]] = inserted[c]
                 /\ last'.kind \in {"ExpiredProduct", "InsufficientStock"}
                     => last'.name = C11_FirstFailing(c)]_vars

\* the weight of one unit in units of 100 g: Cheese weighs 0.4 kg
C12_Hectograms == [p \in Shippable |-> 4]

\* the shippable lines of cart c
C12_ShippableLines(c) == {p \in DOMAIN items[c] : isShippable(p)}

\* the number of shippable units of cart c and their weight in units of 100 g
C12_UnitCount(c) ==
    SumOver([p \in C12_ShippableLines(c) |-> items[c][p]], C12_ShippableLines(c))

C12_TotalHectograms(c) ==
    SumOver([p \in C12_ShippableLines(c) |-> C12_Hectograms[p] * items[c][p]],
            C12_ShippableLines(c))

\* C12: a successful checkout ships one unit per unit of every shippable line
\* and charges 3 per started 100 g of the units' total weight, that is
\* ceil(totalWeight x 10) x 3; with no shippable line there is no unit, no
\* fee, and the total is the subtotal.
C12_ShippingFeeFormula ==
    [][(last'.kind = "Success" /\ Checkout("cart"))
          => /\ Len(last'.units) = C12_UnitCount("cart")
             /\ \A p \in Products :
                   Cardinality({i \in 1..Len(last'.units) : last'.units[i] = p})
                     = IF p \in C12_ShippableLines("cart") THEN items["cart"][p] ELSE 0
             /\ last'.shipping = C12_TotalHectograms("cart") * 3
             /\ C12_ShippableLines("cart") = {}
                   => last'.shipping = 0 /\ last'.units = <<>>
                      /\ last'.total = last'.subtotal]_vars

\* the shipping fee checkout computes for cart c once every line has passed
C13_Fee(c) ==
    ShippingFee(ValidateLoop(c, getItems(c), 0, <<>>).shippables)

\* C13: checkout reports EmptyCart exactly when the cart has no entry,
\* whatever else is wrong; when the cart has entries and every line passes the
\* expiry and stock checks, it reports InsufficientBalance exactly when
\* balance < subtotal + shipping fee and succeeds otherwise, so a balance equal
\* to the total succeeds and leaves balance 0.
C13_OutcomeClassification ==
    [][\A c \in Carts :
          (last'.op = "checkout" /\ Checkout(c))
              => /\ last'.kind = "EmptyCart" <=> DOMAIN items[c] = {}
                 /\ C4_Valid(c)
                     => /\ last'.kind = "InsufficientBalance"
                              <=> balance < C4_Subtotal(c) + C13_Fee(c)
                        /\ last'.kind = "Success"
                              <=> balance >= C4_Subtotal(c) + C13_Fee(c)
                        /\ balance = C4_Subtotal(c) + C13_Fee(c)
                              => last'.kind = "Success" /\ balance' = 0]_vars

\* a checkout whose total was the whole balance has succeeded
C13_Witness ==
    /\ last.op = "checkout" /\ last.kind = "Success"
    /\ last.total = InitBalance
    /\ balance = 0

\* what a checkout prints as its outcome, and what it changes
C14_Reports == {"shipment", "receipt"}
C14_Settlement == {"deduct", "commit"}

\* C14: in a successful checkout the balance deduction, the stock reduction
\* and the cart clear all come before the shipment notice and the receipt;
\* the shipment notice is printed exactly when there is a shippable unit, and
\* before the receipt; a failed checkout prints one error and nothing else.
C14_SettlementBeforeReport ==
    /\ \A i \in 1..Len(events) :
          events[i] \in C14_Reports
              => \A e \in C14_Settlement : \E j \in 1..(i - 1) : events[j] = e
    /\ (last.op = "checkout" /\ last.kind = "Success")
          => /\ (\E i \in 1..Len(events) : events[i] = "shipment") <=> last.units # <<>>
             /\ \A i, j \in 1..Len(events) :
                   (events[i] = "shipment" /\ events[j] = "receipt") => i < j
    /\ (\E i \in 1..Len(events) : events[i] = "error") => events = <<"error">>

\* C15: stock goes below zero only when two checkouts have been under way
\* together, both past their stock checks before either reduced the stock;
\* checkouts that each run from their checks to their commit with no other
\* checkout under way never leave a negative stock.
C15_NegativeStockNeedsInterleaving ==
    (\E p \in Products : quantity[p] < 0) => raced

\* two carts each held the last ScratchCard, both checkouts passed the stock
\* check and both reduced the stock
C15_Witness ==
    /\ raced /\ Idle
    /\ quantity["ScratchCard"] = initialQuantity["ScratchCard"] - 2
    /\ quantity["ScratchCard"] < 0
    /\ \A c \in Carts : isEmpty(c)

\* C16: over any sequence of add and checkout calls on the carts, the stock of
\* each product is its initial stock less the units of that product in the
\* successfully checked-out carts, the balance is the initial balance less
\* the totals of the successful checkouts, and a stock that starts at zero or
\* more never goes below zero.
C16_Conservation ==
    /\ \A p \in Products : quantity[p] = initialQuantity[p] - sold[p]
    /\ balance = InitBalance - paid
    /\ \A p \in Products : initialQuantity[p] >= 0 => quantity[p] >= 0

\* two carts have been checked out, one with each product
C16_Witness ==
    /\ \A p \in Products : sold[p] > 0
    /\ paid > 0
    /\ \A c \in Carts : isEmpty(c)

\* C17: a successful checkout leaves its cart empty, so checkout called again
\* on that cart right away reports EmptyCart, and a checkout of an empty cart
\* right after a success changes neither the balance nor any stock nor a
\* cart: the cart's contents are not charged a second time.
C17_NoDoubleSettlement ==
    [][\A c \in Carts :
          /\ (last'.op = "checkout" /\ last'.kind = "Success" /\ Checkout(c))
                => /\ isEmpty(c)'
                   /\ CheckoutOutcome(c)'.kind = "EmptyCart"
          /\ (last.op = "checkout" /\ last.kind = "Success" /\ isEmpty(c)
                 /\ last'.op = "checkout" /\ Checkout(c))
                => /\ last'.kind = "EmptyCart"
                   /\ UNCHANGED <<balance, quantity, items>>]_vars

\* checkout was called again after a success that emptied every cart
C17_Witness ==
    /\ last.op = "checkout" /\ last.kind = "EmptyCart"
    /\ balance < InitBalance
    /\ \A c \in Carts : isEmpty(c)

\* the first entry of cart c, in the order checkout visits the entries, that
\* is expired or holds more than the stock
C18_FirstRejected(c) ==
    CHOOSE p \in DOMAIN items[c] :
        /\ C11_Failing(c, p)
        /\ \A r \in DOMAIN items[c] : C11_Failing(c, r) => addr[p] <= addr[r]

\* C18: checkout checks expiry and stock entry by entry: when some entry is
\* expired or over stock, the failure reported names the first such entry in
\* the cart's iteration order, as ExpiredProduct when that entry is expired
\* and as InsufficientStock otherwise, even when a later entry is expired.
C18_PerEntryChecks ==
    [][\A c \in Carts :
          (last'.op = "checkout" /\ Checkout(c)
             /\ \E p \in DOMAIN items[c] : C11_Failing(c, p))
              => /\ last'.name = C18_FirstRejected(c)
                 /\ last'.kind = IF isExpired(C18_FirstRejected(c))
                                  THEN "ExpiredProduct" ELSE "InsufficientStock"]_vars

\* checkout reported the stock of an entry that comes before an expired one
C18_Witness ==
    /\ last.op = "checkout" /\ last.kind = "InsufficientStock"
    /\ \E c \in Carts :
          /\ last.name \in DOMAIN items[c]
          /\ items[c][last.name] > quantity[last.name]
          /\ ~isExpired(last.name)
          /\ \E r \in DOMAIN items[c] : addr[r] > addr[last.name] /\ isExpired(r)

\* C19: every entry of every cart holds a quantity above zero, and every
\* shippable line of a successful checkout has given as many shipment units
\* as its quantity, at least one.
C19_EntriesPositive ==
    /\ \A c \in Carts : \A p \in DOMAIN items[c] : items[c][p] > 0
    /\ (last.op = "checkout" /\ last.kind = "Success")
          => \A i \in 1..Len(last.lines) :
                /\ last.lines[i][2] > 0
                /\ isShippable(last.lines[i][1])
                      => /\ Cardinality({j \in 1..Len(last.units) :
                                           last.units[j] = last.lines[i][1]})
                              = last.lines[i][2]
                         /\ \E j \in 1..Len(last.units) :
                               last.units[j] = last.lines[i][1]

\* a shippable line has been checked out while another cart holds an entry
C19_Witness ==
    /\ last.op = "checkout" /\ last.kind = "Success"
    /\ \E i \in 1..Len(last.lines) : isShippable(last.lines[i][1])
    /\ last.units # <<>>
    /\ \E c \in Carts : ~isEmpty(c)

====
